---- MODULE Spec2Model ----
(***************************************************************************)
(* Model of src/extrator_nfe.py: the NF-e extraction routine               *)
(* extrair_dados_nfe and the page script that calls it for one upload.     *)
(*                                                                         *)
(* An XML element is a record [tag, text, kids].  Tags of the NF-e         *)
(* namespace carry the prefix "nfe:", as in the paths the code looks up.   *)
(* A python float is modelled as an integer number of hundredths.          *)
(***************************************************************************)
EXTENDS Integers, Sequences, FiniteSets, TLC

\* Largest number of det elements in an uploaded document.
MaxDet == 2

----------------------------------------------------------------------------
(* XML values *)

\* Element.text of an element without character data (python None).
NoText == "#None"

\* The result of find() when nothing matches, and an unbound local (python None).
None == [tag |-> "#None", text |-> NoText, kids |-> <<>>]

Elem(tag, text, kids) == [tag |-> tag, text |-> text, kids |-> kids]

Leaf(tag, text) == Elem(tag, text, <<>>)

Opt(present, e) == IF present THEN <<e>> ELSE <<>>

RECURSIVE Flatten(_)
Flatten(ss) == IF ss = <<>> THEN <<>> ELSE Head(ss) \o Flatten(Tail(ss))

SelectTag(kids, tag) == SelectSeq(kids, LAMBDA k : k.tag = tag)

\* Element.findall(tag): the direct children with that tag, in document order.
FindAll(node, tag) == SelectTag(node.kids, tag)

\* Element.find(tag): the first direct child with that tag, or None.
Find(node, tag) ==
    LET m == FindAll(node, tag) IN IF m = <<>> THEN None ELSE Head(m)

\* Element.find("a/b"): the first b child of any a child, in document order.
FindPath(node, a, b) ==
    LET as == FindAll(node, a)
        m  == Flatten([i \in DOMAIN as |-> FindAll(as[i], b)])
    IN IF m = <<>> THEN None ELSE Head(m)

\* float(text): python raises TypeError for None, ValueError for text that is
\* not a number; the value is kept in hundredths.
FloatTable ==
    [t \in {"0.00", "1.00", "1.50", "2.00", "5.00", "10.50", "13.50", "18.50"} |->
        CASE t = "0.00"  -> 0
          [] t = "1.00"  -> 100
          [] t = "1.50"  -> 150
          [] t = "2.00"  -> 200
          [] t = "5.00"  -> 500
          [] t = "10.50" -> 1050
          [] t = "13.50" -> 1350
          [] t = "18.50" -> 1850]

FloatOk(t) == t \in DOMAIN FloatTable

FloatError(t) == IF t = NoText THEN "TypeError" ELSE "ValueError"

Float(t) == FloatTable[t]

\* str() of a text inside an f-string.
Str(t) == IF t = NoText THEN "None" ELSE t

NaoInformado == "Nao informado"

----------------------------------------------------------------------------
(* Uploaded documents *)

Shapes == {"wrapped", "bare", "deep", "absent", "unqualified"}

Required == {"infNFe", "dest", "enderDest", "xNome", "xLgr", "nro", "xBairro",
             "xMun", "UF", "CEP", "ide", "nNF", "dhEmi", "total", "ICMSTot",
             "vNF", "vProd", "vFrete"}

Totals == {"vNF", "vProd", "vFrete"}

GoodItems == {"A", "B"}

BadItems == {"noProd", "noCProd", "noXProd", "noQCom", "noVUnCom",
             "badQCom", "badVUnCom", "emptyQCom"}

ItemKinds == GoodItems \cup BadItems

\* The four item fields of the two well-formed det elements.
ItemText ==
    [k \in GoodItems |->
        IF k = "A"
        THEN [cProd |-> "P1", xProd |-> "Caneta",  qCom |-> "2.00", vUnCom |-> "1.50"]
        ELSE [cProd |-> "P2", xProd |-> "Caderno", qCom |-> "1.00", vUnCom |-> "10.50"]]

CpfText   == "11122233344"
CnpjText  == "11222333000144"
EmailText == "ana@example.com"
FoneText  == "11999990000"
\* A fone element placed directly under dest, which the code does not read.
FoneDestText == "1133334444"

TotalText == [t \in Totals |->
                 CASE t = "vNF" -> "18.50" [] t = "vProd" -> "13.50" [] t = "vFrete" -> "5.00"]

SeqsUpTo(S, n) == UNION {[1..k -> S] : k \in 0..n}

Kept(p, name, e) == Opt(p.missing # name, e)

Det(kind) ==
    LET base == IF kind \in GoodItems THEN ItemText[kind] ELSE ItemText["A"]
        qCom == CASE kind = "badQCom"   -> "abc"
                  [] kind = "emptyQCom" -> NoText
                  [] OTHER              -> base.qCom
        vUn  == IF kind = "badVUnCom" THEN "1,50" ELSE base.vUnCom
        prod == Elem("nfe:prod", NoText,
                     Opt(kind # "noCProd",  Leaf("nfe:cProd", base.cProd))
                  \o Opt(kind # "noXProd",  Leaf("nfe:xProd", base.xProd))
                  \o Opt(kind # "noQCom",   Leaf("nfe:qCom", qCom))
                  \o Opt(kind # "noVUnCom", Leaf("nfe:vUnCom", vUn)))
    IN Elem("nfe:det", NoText, Opt(kind # "noProd", prod))

EnderDest(p) ==
    Elem("nfe:enderDest", NoText,
         Kept(p, "xLgr",    Leaf("nfe:xLgr", "Rua A"))
      \o Kept(p, "nro",     Leaf("nfe:nro", "10"))
      \o Kept(p, "xBairro", Leaf("nfe:xBairro", "Centro"))
      \o Kept(p, "xMun",    Leaf("nfe:xMun", "Recife"))
      \o Kept(p, "UF",      Leaf("nfe:UF", "PE"))
      \o Kept(p, "CEP",     Leaf("nfe:CEP", "50000000"))
      \o Opt(p.fone = "enderDest", Leaf("nfe:fone", FoneText)))

Dest(p) ==
    Elem("nfe:dest", NoText,
         Opt(p.cnpj, Leaf("nfe:CNPJ", CnpjText))
      \o Opt(p.cpf,  Leaf("nfe:CPF", CpfText))
      \o Kept(p, "xNome", Leaf("nfe:xNome", "Ana"))
      \o Kept(p, "enderDest", EnderDest(p))
      \o Opt(p.fone = "dest", Leaf("nfe:fone", FoneDestText))
      \o Opt(p.email, Leaf("nfe:email", EmailText)))

TotalElem(p) ==
    LET txt(t) == IF p.badTotal = t THEN "n/a" ELSE TotalText[t]
    IN Elem("nfe:total", NoText,
            Kept(p, "ICMSTot",
                 Elem("nfe:ICMSTot", NoText,
                      Kept(p, "vProd",  Leaf("nfe:vProd", txt("vProd")))
                   \o Kept(p, "vFrete", Leaf("nfe:vFrete", txt("vFrete")))
                   \o Kept(p, "vNF",    Leaf("nfe:vNF", txt("vNF"))))))

InfNFe(p) ==
    Elem("nfe:infNFe", NoText,
         Kept(p, "ide", Elem("nfe:ide", NoText,
                             Kept(p, "nNF",   Leaf("nfe:nNF", "1234"))
                          \o Kept(p, "dhEmi", Leaf("nfe:dhEmi", "2024-05-01T10:00:00-03:00"))))
      \o Kept(p, "dest", Dest(p))
      \o [i \in DOMAIN p.dets |-> Det(p.dets[i])]
      \o Kept(p, "total", TotalElem(p)))

\* The parsed tree of the document described by p.
Tree(p) ==
    LET nfe  == Elem("nfe:NFe", NoText, Kept(p, "infNFe", InfNFe(p)))
        prot == Elem("nfe:protNFe", NoText, <<>>)
    IN CASE p.shape = "wrapped"     -> Elem("nfe:nfeProc", NoText, <<nfe, prot>>)
         [] p.shape = "bare"        -> nfe
         [] p.shape = "deep"        -> Elem("lote", NoText,
                                            <<Elem("nfe:nfeProc", NoText, <<nfe, prot>>)>>)
         [] p.shape = "absent"      -> Elem("nfe:nfeProc", NoText, <<prot>>)
         [] p.shape = "unqualified" -> Elem("nfeProc", NoText,
                                            <<[nfe EXCEPT !.tag = "NFe"], prot>>)

Plain == [wellformed |-> TRUE, shape |-> "wrapped", missing |-> "none",
          cpf |-> TRUE, cnpj |-> FALSE, email |-> TRUE, fone |-> "enderDest",
          badTotal |-> "none", dets |-> <<"A">>]

\* Documents with a defect in the structure above the items.
HeaderDocs ==
    {[Plain EXCEPT !.shape = s, !.missing = m, !.badTotal = b, !.cpf = c, !.dets = d] :
        s \in Shapes, m \in Required \cup {"none"}, b \in Totals \cup {"none"},
        c \in BOOLEAN, d \in SeqsUpTo(GoodItems, MaxDet)}

\* Documents that vary the optional buyer elements.
BuyerDocs ==
    {[Plain EXCEPT !.shape = s, !.cpf = c, !.cnpj = j, !.email = e, !.fone = f,
                   !.badTotal = b, !.dets = d] :
        s \in {"wrapped", "bare"}, c \in BOOLEAN, j \in BOOLEAN, e \in BOOLEAN,
        f \in {"absent", "enderDest", "dest"}, b \in Totals \cup {"none"},
        d \in SeqsUpTo(GoodItems, MaxDet)}

\* Documents that vary the det elements.
ItemDocs ==
    {[Plain EXCEPT !.badTotal = b, !.dets = d] :
        b \in Totals \cup {"none"}, d \in SeqsUpTo(ItemKinds, MaxDet)}

\* Bytes that are not XML.
NotXml == [Plain EXCEPT !.wellformed = FALSE]

Uploads == HeaderDocs \cup BuyerDocs \cup ItemDocs \cup {NotXml}

----------------------------------------------------------------------------
(* extrair_dados_nfe *)

Unset == "#unset"

NoLocals == [nome_consumidor |-> Unset, documento_consumidor |-> Unset,
             endereco_completo |-> Unset, email_consumidor |-> Unset,
             telefone_consumidor |-> Unset, nNF |-> Unset, dhEmi |-> Unset,
             vNF |-> Unset, vProd |-> Unset, vFrete |-> Unset]

\* The return value None, and pd.DataFrame(itens_data).
NoDataFrame == [ok |-> FALSE, rows |-> <<>>]
DataFrame(rows) == [ok |-> TRUE, rows |-> rows]

NoException == "none"

VARIABLES
    upload,        \* description of the uploaded file (the input)
    xml_content,   \* the bytes handed to extrair_dados_nfe
    pc,            \* position in the script / in extrair_dados_nfe
    steps,         \* blocks of extrair_dados_nfe executed so far
    root, nfe_node, infNFe,
    loc,           \* the scalar locals read before the loop
    itens, n,      \* the det elements and the number already processed
    itens_data,
    exc,           \* exception in flight
    escaped,       \* an exception left extrair_dados_nfe
    df_nfe,        \* the value returned to the page script
    errors,        \* st.error notices shown
    page           \* what else the page script displayed

vars == <<upload, xml_content, pc, steps, root, nfe_node, infNFe, loc,
          itens, n, itens_data, exc, escaped, df_nfe, errors, page>>

fnvars == <<root, nfe_node, infNFe, loc, itens, n, itens_data>>

Init ==
    /\ upload \in Uploads
    /\ xml_content = [wellformed |-> FALSE, tree |-> None]
    /\ pc = "script"
    /\ steps = <<>>
    /\ root = None
    /\ nfe_node = None
    /\ infNFe = None
    /\ loc = NoLocals
    /\ itens = <<>>
    /\ n = 0
    /\ itens_data = <<>>
    /\ exc = NoException
    /\ escaped = FALSE
    /\ df_nfe = NoDataFrame
    /\ errors = <<>>
    /\ page = [success |-> FALSE, download |-> FALSE, file_name |-> Unset, data |-> <<>>]

pagevars == <<errors, page>>

\* A lookup that also searches one level further down.
LocateNFeDeep(r) ==
    LET direct == Find(r, "nfe:NFe")
        below  == Flatten([i \in DOMAIN r.kids |-> FindAll(r.kids[i], "nfe:NFe")])
    IN IF direct # None THEN direct
       ELSE IF below = <<>> THEN None ELSE Head(below)

\* Line 24: the lookup of the invoice root among the children of the root.
LocateNFe(r) == Find(r, "nfe:NFe")

\* A resolution that prefers the CNPJ element.
DocumentoCnpjFirst(dest) ==
    LET cpf_node  == Find(dest, "nfe:CPF")
        cnpj_node == Find(dest, "nfe:CNPJ")
    IN IF cnpj_node # None THEN cnpj_node.text
       ELSE IF cpf_node # None THEN cpf_node.text
       ELSE NaoInformado

\* Line 40.
Documento(dest) ==
    LET cpf_node  == Find(dest, "nfe:CPF")
        cnpj_node == Find(dest, "nfe:CNPJ")
    IN IF cpf_node # None THEN cpf_node.text
       ELSE IF cnpj_node # None THEN cnpj_node.text
       ELSE NaoInformado

\* Lines 52-53.
Email(dest) ==
    LET email_node == Find(dest, "nfe:email")
    IN IF email_node # None THEN email_node.text ELSE NaoInformado

\* A phone lookup in the buyer element instead of the address element.
TelefoneFromDest(dest, enderDest) ==
    LET fone_node == Find(dest, "nfe:fone")
    IN IF fone_node # None THEN fone_node.text ELSE NaoInformado

\* Lines 56-57.
Telefone(dest, enderDest) ==
    LET fone_node == Find(enderDest, "nfe:fone")
    IN IF fone_node # None THEN fone_node.text ELSE NaoInformado

AddressTags == <<"nfe:xLgr", "nfe:nro", "nfe:xBairro", "nfe:xMun", "nfe:UF", "nfe:CEP">>

\* Line 49.
Endereco(enderDest) ==
    LET t(i) == Str(Find(enderDest, AddressTags[i]).text)
    IN t(1) \o ", " \o t(2) \o " - " \o t(3) \o ", " \o t(4) \o "/" \o t(5)
            \o " - CEP: " \o t(6)

\* Lines 29-57 raise AttributeError when find() or text is applied to None.
BuyerFault(inf) ==
    LET dest      == Find(inf, "nfe:dest")
        enderDest == Find(dest, "nfe:enderDest")
    IN \/ inf = None
       \/ dest = None
       \/ Find(dest, "nfe:xNome") = None
       \/ enderDest = None
       \/ \E i \in DOMAIN AddressTags : Find(enderDest, AddressTags[i]) = None

\* Lines 60-67.
SaleFault(inf) ==
    LET ide   == Find(inf, "nfe:ide")
        total == FindPath(inf, "nfe:total", "nfe:ICMSTot")
    IN \/ ide = None
       \/ Find(ide, "nfe:nNF") = None
       \/ Find(ide, "nfe:dhEmi") = None
       \/ total = None
       \/ \E t \in {"nfe:vNF", "nfe:vProd", "nfe:vFrete"} : Find(total, t) = None

\* Lines 74-90: the exception raised while building the record of one det
\* element, in the order python evaluates the dictionary display.
ItemFault(item, l) ==
    LET prod == Find(item, "nfe:prod")
        f(t) == Find(prod, t)
    IN CASE prod = None \/ f("nfe:cProd") = None \/ f("nfe:xProd") = None
              \/ f("nfe:qCom") = None        -> "AttributeError"
         [] ~FloatOk(f("nfe:qCom").text)     -> FloatError(f("nfe:qCom").text)
         [] f("nfe:vUnCom") = None           -> "AttributeError"
         [] ~FloatOk(f("nfe:vUnCom").text)   -> FloatError(f("nfe:vUnCom").text)
         [] ~FloatOk(l.vProd)                -> FloatError(l.vProd)
         [] ~FloatOk(l.vFrete)               -> FloatError(l.vFrete)
         [] ~FloatOk(l.vNF)                  -> FloatError(l.vNF)
         [] OTHER                            -> NoException

\* A record whose product total is the total of the line.
ItemDataLineTotal(item, l) ==
    LET prod == Find(item, "nfe:prod")
        q    == Float(Find(prod, "nfe:qCom").text)
        v    == Float(Find(prod, "nfe:vUnCom").text)
    IN [NF |-> l.nNF,
        DataEmissao |-> l.dhEmi,
        NomeConsumidor |-> l.nome_consumidor,
        Documento |-> l.documento_consumidor,
        Endereco |-> l.endereco_completo,
        Telefone |-> l.telefone_consumidor,
        Email |-> l.email_consumidor,
        CodigoProduto |-> Find(prod, "nfe:cProd").text,
        ProdutoComprado |-> Find(prod, "nfe:xProd").text,
        Quantidade |-> q,
        ValorUnitario |-> v,
        ValorTotalProdutos |-> (q * v) \div 100,
        ValorFrete |-> Float(l.vFrete),
        ValorTotalNota |-> Float(l.vNF)]

\* Lines 75-90.
ItemData(item, l) ==
    LET prod == Find(item, "nfe:prod")
    IN [NF |-> l.nNF,
        DataEmissao |-> l.dhEmi,
        NomeConsumidor |-> l.nome_consumidor,
        Documento |-> l.documento_consumidor,
        Endereco |-> l.endereco_completo,
        Telefone |-> l.telefone_consumidor,
        Email |-> l.email_consumidor,
        CodigoProduto |-> Find(prod, "nfe:cProd").text,
        ProdutoComprado |-> Find(prod, "nfe:xProd").text,
        Quantidade |-> Float(Find(prod, "nfe:qCom").text),
        ValorUnitario |-> Float(Find(prod, "nfe:vUnCom").text),
        ValorTotalProdutos |-> Float(l.vProd),
        ValorFrete |-> Float(l.vFrete),
        ValorTotalNota |-> Float(l.vNF)]

\* An insertion at the front of the list.
PrependItem(data, item_data) == <<item_data>> \o data

\* Line 91.
AppendItem(data, item_data) == Append(data, item_data)

\* A handler that catches the parse and conversion errors only.
CaughtNarrow(e) == e \in {"ParseError", "ValueError", "TypeError"}

\* Line 95: "except Exception" catches every exception raised in the body.
Caught(e) == TRUE

\* A handler that returns the records built before the exception.
ExceptResultPartial(data) == DataFrame(data)

\* Line 97.
ExceptResult(data) == NoDataFrame

\* Line 123.
HasData(df) == df.ok /\ df.rows # <<>>

\* Lines 116-121: the script reads the uploaded bytes and calls the function.
Upload ==
    /\ pc = "script"
    /\ xml_content' = [wellformed |-> upload.wellformed,
                       tree |-> IF upload.wellformed THEN Tree(upload) ELSE None]
    /\ pc' = "parse"
    /\ UNCHANGED <<upload, steps, fnvars, exc, escaped, df_nfe, pagevars>>

\* Line 17.
Parse ==
    /\ pc = "parse"
    /\ steps' = Append(steps, "parse")
    /\ IF xml_content.wellformed
       THEN /\ root' = xml_content.tree
            /\ pc' = "find_nfe"
            /\ exc' = exc
       ELSE /\ root' = root
            /\ pc' = "except"
            /\ exc' = "ParseError"
    /\ UNCHANGED <<upload, xml_content, nfe_node, infNFe, loc, itens, n,
                   itens_data, escaped, df_nfe, pagevars>>

\* Lines 24-27.
FindNFe ==
    /\ pc = "find_nfe"
    /\ steps' = Append(steps, "find_nfe")
    /\ nfe_node' = LocateNFe(root)
    /\ IF nfe_node' = None
       THEN /\ errors' = Append(errors, "Unrecognized")
            /\ df_nfe' = NoDataFrame
            /\ pc' = "returned"
       ELSE /\ pc' = "buyer"
            /\ UNCHANGED <<errors, df_nfe>>
    /\ UNCHANGED <<upload, xml_content, root, infNFe, loc, itens, n,
                   itens_data, exc, escaped, page>>

\* Lines 29-57.
ReadBuyer ==
    /\ pc = "buyer"
    /\ steps' = Append(steps, "buyer")
    /\ infNFe' = Find(nfe_node, "nfe:infNFe")
    /\ IF BuyerFault(infNFe')
       THEN /\ exc' = "AttributeError"
            /\ pc' = "except"
            /\ loc' = loc
       ELSE LET dest      == Find(infNFe', "nfe:dest")
                enderDest == Find(dest, "nfe:enderDest")
            IN /\ loc' = [loc EXCEPT
                            !.nome_consumidor = Find(dest, "nfe:xNome").text,
                            !.documento_consumidor = Documento(dest),
                            !.endereco_completo = Endereco(enderDest),
                            !.email_consumidor = Email(dest),
                            !.telefone_consumidor = Telefone(dest, enderDest)]
               /\ pc' = "sale"
               /\ exc' = exc
    /\ UNCHANGED <<upload, xml_content, root, nfe_node, itens, n, itens_data,
                   escaped, df_nfe, pagevars>>

\* Lines 60-71.
ReadSale ==
    /\ pc = "sale"
    /\ steps' = Append(steps, "sale")
    /\ IF SaleFault(infNFe)
       THEN /\ exc' = "AttributeError"
            /\ pc' = "except"
            /\ UNCHANGED <<loc, itens>>
       ELSE LET ide   == Find(infNFe, "nfe:ide")
                total == FindPath(infNFe, "nfe:total", "nfe:ICMSTot")
            IN /\ loc' = [loc EXCEPT
                            !.nNF = Find(ide, "nfe:nNF").text,
                            !.dhEmi = Find(ide, "nfe:dhEmi").text,
                            !.vNF = Find(total, "nfe:vNF").text,
                            !.vProd = Find(total, "nfe:vProd").text,
                            !.vFrete = Find(total, "nfe:vFrete").text]
               /\ itens' = FindAll(infNFe, "nfe:det")
               /\ pc' = "items"
               /\ exc' = exc
    /\ UNCHANGED <<upload, xml_content, root, nfe_node, infNFe, n, itens_data,
                   escaped, df_nfe, pagevars>>

\* Lines 73-91: one iteration of the loop.
LoopItem ==
    /\ pc = "items"
    /\ n < Len(itens)
    /\ steps' = Append(steps, "item")
    /\ LET item == itens[n + 1]
           e    == ItemFault(item, loc)
       IN IF e # NoException
          THEN /\ exc' = e
               /\ pc' = "except"
               /\ UNCHANGED <<n, itens_data>>
          ELSE /\ itens_data' = AppendItem(itens_data, ItemData(item, loc))
               /\ n' = n + 1
               /\ UNCHANGED <<exc, pc>>
    /\ UNCHANGED <<upload, xml_content, root, nfe_node, infNFe, loc, itens,
                   escaped, df_nfe, pagevars>>

\* Line 93.
Return ==
    /\ pc = "items"
    /\ n = Len(itens)
    /\ steps' = Append(steps, "return")
    /\ df_nfe' = DataFrame(itens_data)
    /\ pc' = "returned"
    /\ UNCHANGED <<upload, xml_content, fnvars, exc, escaped, pagevars>>

\* Lines 95-97.
Except ==
    /\ pc = "except"
    /\ steps' = Append(steps, "except")
    /\ IF Caught(exc)
       THEN /\ errors' = Append(errors, "Processing")
            /\ df_nfe' = ExceptResult(itens_data)
            /\ pc' = "returned"
            /\ escaped' = escaped
       ELSE /\ escaped' = TRUE
            /\ pc' = "done"
            /\ UNCHANGED <<errors, df_nfe>>
    /\ UNCHANGED <<upload, xml_content, fnvars, exc, page>>

\* Lines 123-165: the branch taken when a non-empty table came back.
ShowResult ==
    /\ pc = "returned"
    /\ HasData(df_nfe)
    /\ page' = [success |-> TRUE, download |-> TRUE,
                file_name |-> "dados_nfe_" \o Str(df_nfe.rows[1].NF) \o ".xlsx",
                data |-> df_nfe.rows]
    /\ pc' = "done"
    /\ UNCHANGED <<upload, xml_content, steps, fnvars, exc, escaped, df_nfe, errors>>

\* Line 123 false: the script ends without displaying anything more.
ShowNothing ==
    /\ pc = "returned"
    /\ ~HasData(df_nfe)
    /\ pc' = "done"
    /\ UNCHANGED <<upload, xml_content, steps, fnvars, exc, escaped, df_nfe, pagevars>>

Next ==
    \/ Upload
    \/ Parse
    \/ FindNFe
    \/ ReadBuyer
    \/ ReadSale
    \/ LoopItem
    \/ Return
    \/ Except
    \/ ShowResult
    \/ ShowNothing

Spec == Init /\ [][Next]_vars

TypeOK ==
    /\ pc \in {"script", "parse", "find_nfe", "buyer", "sale", "items", "except",
               "returned", "done"}
    /\ n \in 0..Len(itens)
    /\ Len(itens_data) = n
    /\ df_nfe.ok \in BOOLEAN

----------------------------------------------------------------------------
(* Properties *)

Finished == pc \in {"returned", "done"}

\* The namespaced NFe element is a direct child of the document root.
Wrapped(p) == p.wellformed /\ p.shape = "wrapped"

\* Every required element is present and every number is numeric.
Complete(p) ==
    /\ p.wellformed
    /\ p.missing = "none"
    /\ p.badTotal = "none"
    /\ \A i \in DOMAIN p.dets : p.dets[i] \in GoodItems

\* The values the two well-formed det elements carry, as numbers.
ExpectedItem ==
    [k \in GoodItems |->
        IF k = "A"
        THEN [code |-> "P1", name |-> "Caneta",  qty |-> 200, unit |-> 150]
        ELSE [code |-> "P2", name |-> "Caderno", qty |-> 100, unit |-> 1050]]

InvoiceFields(r) ==
    <<r.NF, r.DataEmissao, r.NomeConsumidor, r.Documento, r.Endereco, r.Telefone,
      r.Email, r.ValorTotalProdutos, r.ValorFrete, r.ValorTotalNota>>

\* C1: extrair_dados_nfe returns either one record for every det element of
\* the document or an error with no records at all; a faulty det element
\* makes the records built for the det elements before it disappear.
C1_NoPartialResult ==
    Finished =>
        /\ \/ df_nfe.ok /\ Len(df_nfe.rows) = Len(upload.dets)
           \/ ~df_nfe.ok /\ df_nfe.rows = <<>> /\ errors # <<>>
        /\ (\E k \in DOMAIN upload.dets : upload.dets[k] \in BadItems) => ~df_nfe.ok

C1_Witness ==
    /\ pc = "done"
    /\ Wrapped(upload)
    /\ Len(upload.dets) = 2
    /\ upload.dets[1] \in GoodItems
    /\ upload.dets[2] \in BadItems
    /\ Len(itens_data) = 1
    /\ ~df_nfe.ok
    /\ df_nfe.rows = <<>>

\* C2: a well-formed invoice with N det elements yields exactly N records,
\* the i-th carrying the code, description, quantity and unit value of the
\* i-th det element.
C2_RecordsInDocumentOrder ==
    (Finished /\ Wrapped(upload) /\ Complete(upload)) =>
        /\ df_nfe.ok
        /\ Len(df_nfe.rows) = Len(upload.dets)
        /\ \A i \in DOMAIN upload.dets :
              LET r == df_nfe.rows[i]
                  x == ExpectedItem[upload.dets[i]]
              IN /\ r.CodigoProduto = x.code
                 /\ r.ProdutoComprado = x.name
                 /\ r.Quantidade = x.qty
                 /\ r.ValorUnitario = x.unit

C2_Witness ==
    /\ pc = "done"
    /\ Complete(upload)
    /\ upload.dets = <<"A", "B">>
    /\ df_nfe.ok
    /\ Len(df_nfe.rows) = 2
    /\ df_nfe.rows[2].CodigoProduto = "P2"

\* C3: all records returned for one document agree on the ten invoice-level
\* and buyer-level fields.
C3_SharedInvoiceFields ==
    Finished =>
        \A i, j \in DOMAIN df_nfe.rows :
            InvoiceFields(df_nfe.rows[i]) = InvoiceFields(df_nfe.rows[j])

C3_Witness ==
    /\ pc = "done"
    /\ Len(df_nfe.rows) = 2
    /\ df_nfe.rows[1].CodigoProduto # df_nfe.rows[2].CodigoProduto
    /\ InvoiceFields(df_nfe.rows[1]) = InvoiceFields(df_nfe.rows[2])

\* C4: the buyer document of every record is the CPF text when a CPF element
\* is present, else the CNPJ text when a CNPJ element is present, else
\* "Nao informado"; the absence of both does not abort the extraction.
C4_BuyerDocument ==
    Finished =>
        /\ \A i \in DOMAIN df_nfe.rows :
              df_nfe.rows[i].Documento =
                 IF upload.cpf THEN CpfText
                 ELSE IF upload.cnpj THEN CnpjText
                 ELSE NaoInformado
        /\ (Wrapped(upload) /\ Complete(upload) /\ ~upload.cpf /\ ~upload.cnpj)
              => df_nfe.ok /\ errors = <<>>

C4_Witness ==
    /\ pc = "done"
    /\ upload.cpf
    /\ upload.cnpj
    /\ df_nfe.rows # <<>>
    /\ df_nfe.rows[1].Documento = CpfText

\* C5: Email is the text of dest/email and Telefone the text of
\* dest/enderDest/fone when present, "Nao informado" otherwise, each
\* independently of the other, and the extraction succeeds in all cases.
C5_EmailAndPhone ==
    Finished =>
        /\ \A i \in DOMAIN df_nfe.rows :
              /\ df_nfe.rows[i].Email =
                    IF upload.email THEN EmailText ELSE NaoInformado
              /\ df_nfe.rows[i].Telefone =
                    IF upload.fone = "enderDest" THEN FoneText ELSE NaoInformado
        /\ (Wrapped(upload) /\ Complete(upload)) => df_nfe.ok /\ errors = <<>>

C5_Witness ==
    /\ pc = "done"
    /\ upload.email
    /\ upload.fone = "dest"
    /\ df_nfe.rows # <<>>
    /\ df_nfe.rows[1].Telefone = NaoInformado
    /\ df_nfe.rows[1].Email = EmailText

\* C6: an otherwise well-formed invoice is extracted successfully both when
\* the namespaced NFe element is a direct child of the root and when it is
\* the root itself.
C6_BothRootShapes ==
    (pc = "done" /\ Complete(upload) /\ upload.shape \in {"wrapped", "bare"}) =>
        df_nfe.ok /\ errors = <<>>

\* C7: when the namespaced NFe element is nowhere in the document, or lies
\* deeper than one level below the root, the only notice is the one about the
\* missing NFe tag, nothing is returned and no other element is read.
C7_UnrecognizedStructure ==
    (Finished /\ upload.wellformed /\ upload.shape \in {"deep", "absent", "unqualified"}) =>
        /\ errors = <<"Unrecognized">>
        /\ ~df_nfe.ok
        /\ df_nfe.rows = <<>>
        /\ steps = <<"parse", "find_nfe">>
        /\ infNFe = None
        /\ loc = NoLocals
        /\ itens_data = <<>>

C7_Witness ==
    /\ pc = "done"
    /\ upload.shape = "deep"
    /\ Complete(upload)
    /\ errors = <<"Unrecognized">>
    /\ ~df_nfe.ok

\* C8: when a required element is absent, the fault is caught inside
\* extrair_dados_nfe, nothing is returned and exactly one notice is shown,
\* whatever the number of det elements; where the invoice root was located
\* that notice is the processing-error one.
C8_MissingRequiredElement ==
    (Finished /\ upload.wellformed /\ upload.missing # "none") =>
        /\ ~escaped
        /\ ~df_nfe.ok
        /\ df_nfe.rows = <<>>
        /\ Len(errors) = 1
        /\ Wrapped(upload) => errors = <<"Processing">>
        /\ ~page.download

C8_Witness ==
    /\ pc = "done"
    /\ Wrapped(upload)
    /\ upload.missing = "vFrete"
    /\ Len(upload.dets) = 2
    /\ exc = "AttributeError"
    /\ errors = <<"Processing">>
    /\ ~df_nfe.ok

\* C9: a non-numeric vNF, vProd or vFrete makes the extraction fail with the
\* processing error and return nothing, for every number of det elements,
\* zero included.
C9_NonNumericTotals ==
    (pc = "done" /\ Wrapped(upload) /\ upload.missing = "none"
        /\ upload.badTotal # "none") =>
        /\ errors = <<"Processing">>
        /\ ~df_nfe.ok

\* C10: after a failed extraction or an empty record set exactly one error
\* notice is displayed and no download is offered; the download is offered
\* only after a successful extraction with at least one record.
C10_NoticeOrExport ==
    pc = "done" =>
        /\ (~df_nfe.ok \/ df_nfe.rows = <<>>) => Len(errors) = 1 /\ ~page.download
        /\ page.download => df_nfe.ok /\ df_nfe.rows # <<>>

====
